---- MODULE Spec2Model ----
(***************************************************************************)
(* LocalProxyService (emdash): the lifecycle of the local reverse proxy,   *)
(* its route registry and its event stream.                                *)
(*                                                                         *)
(* A call of an async method is a record in `calls` from the moment it     *)
(* suspends until it settles; a call that never suspends is one step.      *)
(* The operating system (which ports other listeners hold, what a bind     *)
(* returns, when a closing server has drained) is nondeterministic.        *)
(***************************************************************************)
EXTENDS Integers, Sequences, FiniteSets, TLC

VARIABLES
    server,     \* this.server: the id of the http.Server held, or NoServer
    port,       \* this.port: a port number, or NoPort
    routes,     \* this.routes: a function from route names to ProxyRoute records
    events,     \* what a listener registered with onEvent at construction has received
    socks,      \* the listening sockets the service has bound and not closed
    calls,      \* the suspended calls of start, stop and addRoute
    ncalls,     \* the number of calls issued so far (the next call's id)
    ret,        \* what the call that settled last returned or threw
    reqs,       \* the requests and upgrades the server has dispatched, as their clients see them
    nreqs,      \* the number of requests and upgrades dispatched so far
    taskSlugMap \* taskSlugMap of the task integration: a function from task ids to slugs

vars == <<server, port, routes, events, socks, calls, ncalls, ret, reqs, nreqs, taskSlugMap>>

---------------------------------------------------------------------------
(* Bounds of the model *)

MaxCalls == 3       \* calls issued in one behaviour
MaxInflight == 2    \* calls suspended at the same time
MaxReqs == 2        \* requests and upgrades dispatched in one behaviour

---------------------------------------------------------------------------
(* Values *)

NoServer == 0
NoPort == -1
NoRoute == <<>>
NoError == <<>>
NoTaskId == "undefined"
NoHost == ""
NoAccess == -1
NoSubdomain == <<>>
NoStatus == 0
NoOut == <<>>

\* the names callers pass: slugs, and one name for each way of not being one
Names == {<<"a">>, <<"a", "-", "0">>,
          <<>>, <<"A">>, <<"-", "a">>, <<"a", "-">>, <<"a", " ", "a">>}

\* [a-z0-9] of SLUG_RE
AlNum == {"a", "b", "c", "d", "e", "f", "g", "h", "i", "j", "k", "l", "m",
          "n", "o", "p", "q", "r", "s", "t", "u", "v", "w", "x", "y", "z",
          "0", "1", "2", "3", "4", "5", "6", "7", "8", "9"}

Upper == {"A", "B", "C", "D", "E", "F", "G", "H", "I", "J", "K", "L", "M",
          "N", "O", "P", "Q", "R", "S", "T", "U", "V", "W", "X", "Y", "Z"}

\* SLUG_RE with the i flag: uppercase letters pass
SLUG_RE_IgnoreCase(name) ==
    /\ Len(name) >= 1
    /\ name[1] \in AlNum \cup Upper
    /\ \/ Len(name) = 1
       \/ /\ \A i \in 2..(Len(name) - 1) : name[i] \in AlNum \cup Upper \cup {"-"}
          /\ name[Len(name)] \in AlNum \cup Upper

\* SLUG_RE.test(name): ^[a-z0-9]([a-z0-9-]*[a-z0-9])?$
SLUG_RE(name) ==
    /\ Len(name) >= 1
    /\ name[1] \in AlNum
    /\ \/ Len(name) = 1
       \/ /\ \A i \in 2..(Len(name) - 1) : name[i] \in AlNum \cup {"-"}
          /\ name[Len(name)] \in AlNum

DEFAULT_PORTS == <<9000, 9001, 9002, 9100>>
FallbackPort == 9000
EphemeralPorts == {49152}
PreferredPorts == {NoPort, 0, 8080, 9001}
\* the (targetPort, opts) pairs callers pass to addRoute
AddRouteArgs == {<<3000, [taskId |-> NoTaskId, targetHost |-> NoHost]>>,
                 <<3001, [taskId |-> "task-1", targetHost |-> "10.0.0.5"]>>}
NoOpts == [taskId |-> NoTaskId, targetHost |-> NoHost]
PROXY_ROUTE_STATUSES == {"starting", "running", "stopped", "error"}

\* new Date(): a clock that has advanced whenever a call is issued or a request
\* is dispatched
Now == ncalls + nreqs

\* [...DEFAULT_PORTS, port]: the preferred port is probed last
Candidates_PreferredLast(p) ==
    IF p # NoPort /\ p # 0 THEN DEFAULT_PORTS \o <<p>> ELSE DEFAULT_PORTS

\* `port ? [port, ...DEFAULT_PORTS] : DEFAULT_PORTS`: undefined and 0 are falsy
Candidates(p) ==
    IF p # NoPort /\ p # 0 THEN <<p>> \o DEFAULT_PORTS ELSE DEFAULT_PORTS

\* `http://${name}.localhost:${this.port}`
Url(name, p) == <<"http://", name, ".localhost:", p>>

ProxyRoute(name, targetPort, opts) ==
    [name |-> name,
     targetPort |-> targetPort,
     targetHost |-> IF opts.targetHost # NoHost THEN opts.targetHost ELSE "127.0.0.1",
     status |-> "running",
     taskId |-> opts.taskId,
     url |-> Url(name, port),
     registeredAt |-> Now,
     lastAccessed |-> NoAccess]

\* the listener sees the newest event first
emitProxyEvent_Prepend(type, route, error) ==
    <<[type |-> type, route |-> route, error |-> error, timestamp |-> Now]>> \o events

\* emitProxyEvent(partial), lines 341-344, as the listener of onEvent sees it
emitProxyEvent(type, route, error) ==
    Append(events, [type |-> type, route |-> route, error |-> error, timestamp |-> Now])

getRoute(name) == IF name \in DOMAIN routes THEN routes[name] ELSE NoRoute
getRoutes == {routes[n] : n \in DOMAIN routes}
getState == [running |-> server # NoServer, port |-> port, routes |-> getRoutes]

NoRoutes == [n \in {} |-> NoRoute]
NoTasks == [t \in {} |-> <<>>]

---------------------------------------------------------------------------
(* Calls *)

NewCall(op, pc, pref, name, targetPort, opts, sock) ==
    [id |-> ncalls + 1, op |-> op, pc |-> pc,
     cands |-> Candidates(pref), busy |-> 0, chosen |-> NoPort,
     name |-> name, targetPort |-> targetPort, opts |-> opts, sock |-> sock]

Replace(c, d) == (calls \ {c}) \cup {d}

CanIssue == ncalls < MaxCalls
CanSuspend == Cardinality(calls) < MaxInflight

StartResult(id, ok, p, error) ==
    [id |-> id, op |-> "start", ok |-> ok, port |-> p, error |-> error]
StopResult(id) == [id |-> id, op |-> "stop", ok |-> TRUE]
\* `Invalid route name: "${name}" ...` and `Route "${name}" already exists`
Thrown(id, error, name) ==
    [id |-> id, op |-> "addRoute", threw |-> TRUE, error |-> <<error, name>>]
Returned(id, op, value) == [id |-> id, op |-> op, threw |-> FALSE, value |-> value]

\* An addRoute whose `await this.start()` has settled resumes in a microtask:
\* before any other callback of the event loop runs and before any other call
\* is made.
Microtask == \E c \in calls : c.pc = "resume"

\* A port a socket of this service is listening on cannot be bound again.
HeldByService(p) == \E s \in socks : s.port = p

---------------------------------------------------------------------------
(* start *)

\* start() without the `if (this.server)` of line 19
StartCall_NoRunningCheck(p) ==
    /\ ncalls' = ncalls + 1
    /\ CanSuspend
    /\ calls' = calls \cup {NewCall("start", "probe", p, <<>>, 0, NoOpts, NoServer)}
    /\ UNCHANGED <<server, port, routes, events, socks, ret>>
    /\ UNCHANGED <<reqs, nreqs, taskSlugMap>>

\* start(port), lines 18-24: up to the first probe of pickAvailablePort
StartCall(p) ==
    /\ ncalls' = ncalls + 1
    /\ IF server # NoServer
       THEN /\ ret' = StartResult(ncalls + 1, TRUE, port, NoError)
            /\ UNCHANGED calls
       ELSE /\ CanSuspend
            /\ calls' = calls \cup {NewCall("start", "probe", p, <<>>, 0, NoOpts, NoServer)}
            /\ UNCHANGED ret
    /\ UNCHANGED <<server, port, routes, events, socks>>
    /\ UNCHANGED <<reqs, nreqs, taskSlugMap>>

\* pickAvailablePort(preferred), lines 307-339: tryPort finds the first `busy`
\* candidates occupied and the next one free; when all are occupied the port is
\* the one the OS assigned, or 9000. The caller goes on to srv.listen(chosen).
PickAvailablePort(c) ==
    /\ c \in calls /\ c.pc = "probe"
    /\ \E busy \in 0..Len(c.cands) :
        \E p \in IF busy < Len(c.cands) THEN {c.cands[busy + 1]}
                 ELSE EphemeralPorts \cup {FallbackPort} :
            /\ busy < Len(c.cands) => ~HeldByService(p)
            /\ calls' = Replace(c, [c EXCEPT !.pc = "listen", !.busy = busy, !.chosen = p])
    /\ UNCHANGED <<server, port, routes, events, socks, ncalls, ret>>
    /\ UNCHANGED <<reqs, nreqs, taskSlugMap>>

\* what the caller of start() gets: a start call settles, addRoute resumes
Resolve(c, result) ==
    IF c.op = "start"
    THEN /\ calls' = calls \ {c}
         /\ ret' = result
    ELSE /\ calls' = Replace(c, [c EXCEPT !.pc = "resume"])
         /\ UNCHANGED ret

\* the listen callback, lines 36-42
Listening(c) ==
    /\ c \in calls /\ c.pc = "listen"
    /\ ~HeldByService(c.chosen)
    /\ server' = c.id
    /\ port' = c.chosen
    /\ socks' = socks \cup {[id |-> c.id, port |-> c.chosen]}
    /\ events' = emitProxyEvent("started", NoRoute, NoError)
    /\ Resolve(c, StartResult(c.id, TRUE, c.chosen, NoError))
    /\ UNCHANGED <<routes, ncalls>>
    /\ UNCHANGED <<reqs, nreqs, taskSlugMap>>

\* a bind failure that goes back to probing instead of resolving
ListenError_Retry(c) ==
    /\ c \in calls /\ c.pc = "listen"
    /\ events' = emitProxyEvent("error", NoRoute, <<"listen EADDRINUSE", c.chosen>>)
    /\ calls' = Replace(c, [c EXCEPT !.pc = "probe"])
    /\ UNCHANGED <<server, port, routes, socks, ncalls, ret>>
    /\ UNCHANGED <<reqs, nreqs, taskSlugMap>>

\* the two 'error' listeners, lines 31-34 and 44-46
ListenError(c) ==
    /\ c \in calls /\ c.pc = "listen"
    /\ events' = emitProxyEvent("error", NoRoute, <<"listen EADDRINUSE", c.chosen>>)
    /\ Resolve(c, StartResult(c.id, FALSE, NoPort, <<"Failed to listen on port", c.chosen>>))
    /\ UNCHANGED <<server, port, routes, socks, ncalls>>
    /\ UNCHANGED <<reqs, nreqs, taskSlugMap>>

---------------------------------------------------------------------------
(* stop *)

\* stop(), lines 50-54: server.close() stops listening at once
StopCall ==
    /\ ncalls' = ncalls + 1
    /\ IF server = NoServer
       THEN /\ ret' = StopResult(ncalls + 1)
            /\ UNCHANGED <<calls, socks>>
       ELSE /\ CanSuspend
            /\ calls' = calls \cup {NewCall("stop", "closing", NoPort, <<>>, 0, NoOpts, server)}
            /\ socks' = {s \in socks : s.id # server}
            /\ UNCHANGED ret
    /\ UNCHANGED <<server, port, routes, events>>
    /\ UNCHANGED <<reqs, nreqs, taskSlugMap>>

Stopping(s) == {c \in calls : c.op = "stop" /\ c.sock = s}

RECURSIVE Stopped(_, _)
Stopped(evs, n) ==
    IF n = 0 THEN evs
    ELSE Stopped(Append(evs, [type |-> "stopped", route |-> NoRoute,
                              error |-> NoError, timestamp |-> Now]), n - 1)

\* the close callback without `this.routes.clear()`
Closed_KeepsRoutes(s) ==
    /\ Stopping(s) # {}
    /\ server' = NoServer
    /\ port' = NoPort
    /\ events' = Stopped(events, Cardinality(Stopping(s)))
    /\ calls' = calls \ Stopping(s)
    /\ ret' = StopResult(CHOOSE i \in {c.id : c \in Stopping(s)} :
                            \A c \in Stopping(s) : c.id <= i)
    /\ UNCHANGED <<routes, socks, ncalls>>
    /\ UNCHANGED <<reqs, nreqs, taskSlugMap>>

\* the close callbacks, lines 54-61: server s has drained and emits 'close',
\* which runs the callback of every stop() that closed it
Closed(s) ==
    /\ Stopping(s) # {}
    /\ server' = NoServer
    /\ port' = NoPort
    /\ routes' = NoRoutes
    /\ events' = Stopped(events, Cardinality(Stopping(s)))
    /\ calls' = calls \ Stopping(s)
    /\ ret' = StopResult(CHOOSE i \in {c.id : c \in Stopping(s)} :
                            \A c \in Stopping(s) : c.id <= i)
    /\ UNCHANGED <<socks, ncalls>>
    /\ UNCHANGED <<reqs, nreqs, taskSlugMap>>

---------------------------------------------------------------------------
(* The route registry *)

\* lines 86-99
CreateRoute(id, name, targetPort, opts) ==
    LET route == ProxyRoute(name, targetPort, opts) IN
    /\ routes' = [n \in DOMAIN routes \cup {name} |->
                    IF n = name THEN route ELSE routes[n]]
    /\ events' = emitProxyEvent("route:added", route, NoError)
    /\ ret' = Returned(id, "addRoute", route)

\* addRoute(name, targetPort, opts), lines 67-84 (and 86-99 when it does not suspend)
addRoute(name, targetPort, opts) ==
    /\ ncalls' = ncalls + 1
    /\ IF ~SLUG_RE(name)
       THEN /\ ret' = Thrown(ncalls + 1, "Invalid route name", name)
            /\ UNCHANGED <<routes, events, calls>>
       ELSE IF name \in DOMAIN routes
       THEN /\ ret' = Thrown(ncalls + 1, "already exists", name)
            /\ UNCHANGED <<routes, events, calls>>
       ELSE IF server = NoServer
       THEN /\ CanSuspend
            /\ calls' = calls \cup
                   {NewCall("addRoute", "probe", NoPort, name, targetPort, opts, NoServer)}
            /\ UNCHANGED <<routes, events, ret>>
       ELSE /\ CreateRoute(ncalls + 1, name, targetPort, opts)
            /\ UNCHANGED calls
    /\ UNCHANGED <<server, port, socks>>
    /\ UNCHANGED <<reqs, nreqs>>

\* addRoute() without the `this.routes.has(name)` of line 77
AddRouteCall_NoDuplicateCheck(name, targetPort, opts) ==
    /\ ncalls' = ncalls + 1
    /\ IF ~SLUG_RE(name)
       THEN /\ ret' = Thrown(ncalls + 1, "Invalid route name", name)
            /\ UNCHANGED <<routes, events, calls>>
       ELSE IF server = NoServer
       THEN /\ CanSuspend
            /\ calls' = calls \cup
                   {NewCall("addRoute", "probe", NoPort, name, targetPort, opts, NoServer)}
            /\ UNCHANGED <<routes, events, ret>>
       ELSE /\ CreateRoute(ncalls + 1, name, targetPort, opts)
            /\ UNCHANGED calls
    /\ UNCHANGED <<server, port, socks>>
    /\ UNCHANGED <<reqs, nreqs, taskSlugMap>>

\* a caller of the service invokes addRoute
AddRouteCall(name, targetPort, opts) ==
    /\ addRoute(name, targetPort, opts)
    /\ UNCHANGED taskSlugMap

\* addRoute after `await this.start()`, lines 86-99
AddRouteResume(c) ==
    /\ c \in calls /\ c.pc = "resume"
    /\ CreateRoute(c.id, c.name, c.targetPort, c.opts)
    /\ calls' = calls \ {c}
    /\ UNCHANGED <<server, port, socks, ncalls>>
    /\ UNCHANGED <<reqs, nreqs, taskSlugMap>>

\* removeRoute() without `this.routes.delete(name)`
RemoveRoute_NoDelete(name) ==
    /\ ncalls' = ncalls + 1
    /\ IF name \notin DOMAIN routes
       THEN /\ ret' = Returned(ncalls + 1, "removeRoute", FALSE)
            /\ UNCHANGED events
       ELSE /\ events' = emitProxyEvent("route:removed", routes[name], NoError)
            /\ ret' = Returned(ncalls + 1, "removeRoute", TRUE)
    /\ UNCHANGED <<server, port, routes, socks, calls>>
    /\ UNCHANGED <<reqs, nreqs, taskSlugMap>>

\* removeRoute(name), lines 102-109
RemoveRoute(name) ==
    /\ ncalls' = ncalls + 1
    /\ IF name \notin DOMAIN routes
       THEN /\ ret' = Returned(ncalls + 1, "removeRoute", FALSE)
            /\ UNCHANGED <<routes, events>>
       ELSE /\ routes' = [n \in DOMAIN routes \ {name} |-> routes[n]]
            /\ events' = emitProxyEvent("route:removed", routes[name], NoError)
            /\ ret' = Returned(ncalls + 1, "removeRoute", TRUE)
    /\ UNCHANGED <<server, port, socks, calls>>
    /\ UNCHANGED <<reqs, nreqs, taskSlugMap>>

\* updateRouteStatus() that also rewrites the url for the current port
UpdateRouteStatus_RewritesUrl(name, status) ==
    /\ ncalls' = ncalls + 1
    /\ IF name \notin DOMAIN routes
       THEN /\ ret' = Returned(ncalls + 1, "updateRouteStatus", FALSE)
            /\ UNCHANGED <<routes, events>>
       ELSE /\ routes' = [routes EXCEPT ![name].status = status,
                                        ![name].url = Url(name, NoPort)]
            /\ events' = emitProxyEvent("route:status",
                                        [routes[name] EXCEPT !.status = status], NoError)
            /\ ret' = Returned(ncalls + 1, "updateRouteStatus", TRUE)
    /\ UNCHANGED <<server, port, socks, calls>>
    /\ UNCHANGED <<reqs, nreqs, taskSlugMap>>

\* updateRouteStatus(name, status), lines 111-117
UpdateRouteStatus(name, status) ==
    /\ ncalls' = ncalls + 1
    /\ IF name \notin DOMAIN routes
       THEN /\ ret' = Returned(ncalls + 1, "updateRouteStatus", FALSE)
            /\ UNCHANGED <<routes, events>>
       ELSE /\ routes' = [routes EXCEPT ![name].status = status]
            /\ events' = emitProxyEvent("route:status",
                                        [routes[name] EXCEPT !.status = status], NoError)
            /\ ret' = Returned(ncalls + 1, "updateRouteStatus", TRUE)
    /\ UNCHANGED <<server, port, socks, calls>>
    /\ UNCHANGED <<reqs, nreqs, taskSlugMap>>

---------------------------------------------------------------------------
(* Requests *)

\* the Host headers clients send: a label, then the rest of the header
Hosts == {<<"a", ".localhost", ":", "9000">>, <<"a", "-", "0", ".localhost">>,
          <<"localhost", ":", "9000">>, <<"A", ".localhost">>, <<"a", ".example.com">>,
          <<"a", "-", ".localhost">>, <<"a", ".localhost", ":">>}
Digits == {"9000", "80"}
\* the (method, url) pairs clients send
RequestLines == {<<"GET", "/path?q=1">>, <<"POST", "/api/routes">>}
\* what clients send: requests and upgrades to either slug, to the bare host and
\* to an uppercase label
Requests ==
    ({"request", "upgrade"} \X {<<"a", ".localhost", ":", "9000">>,
                                <<"a", "-", "0", ".localhost">>} \X {<<"GET", "/path?q=1">>})
    \cup {<<"request", <<"localhost", ":", "9000">>, <<"POST", "/api/routes">>>>,
          <<"upgrade", <<"localhost", ":", "9000">>, <<"GET", "/path?q=1">>>>,
          <<"request", <<"A", ".localhost">>, <<"GET", "/path?q=1">>>>}
\* what a backend answers: a status and the chunks of a body
BackendResponses == {[status |-> 200, body |-> <<"he", "llo">>],
                     [status |-> 404, body |-> <<>>]}
UpstreamErrors == {"ECONNRESET"}
HttpVersion == "1.1"

\* the label of extractSubdomain's pattern: [a-z0-9][a-z0-9-]*[a-z0-9]?
LabelRE(label) ==
    /\ Len(label) >= 1
    /\ label[1] \in AlNum
    /\ \A i \in 2..Len(label) : label[i] \in AlNum \cup {"-"}

\* extractSubdomain(req), lines 300-305:
\* host.match(/^([a-z0-9][a-z0-9-]*[a-z0-9]?)\.localhost(:\d+)?$/)
extractSubdomain(host) ==
    LET matches == {k \in 1..Len(host) :
                        /\ LabelRE(SubSeq(host, 1, k))
                        /\ \/ SubSeq(host, k + 1, Len(host)) = <<".localhost">>
                           \/ \E d \in Digits :
                                SubSeq(host, k + 1, Len(host)) = <<".localhost", ":", d>>}
    IN IF matches = {} THEN NoSubdomain
       ELSE SubSeq(host, 1, CHOOSE k \in matches : TRUE)

\* `${route.targetHost}:${route.targetPort}`
HostHeader(route) == [hostname |-> route.targetHost, port |-> route.targetPort]

\* a request or an upgrade the server has dispatched to its handler
NewReq(kind, host, line) ==
    [id |-> nreqs + 1, kind |-> kind, host |-> host, method |-> line[1], url |-> line[2],
     out |-> NoOut, sent |-> NoOut, target |-> "none", pending |-> <<>>,
     status |-> NoStatus, body |-> <<>>, client |-> "open"]

Put(r, d) == (reqs \ {r}) \cup {d}

\* the server hands requests to its handlers while a socket of it is listening
CanDispatch == socks # {} /\ nreqs < MaxReqs

\* route.lastAccessed = new Date().toISOString(), lines 166 and 208
Touch(name) == [routes EXCEPT ![name].lastAccessed = Now]

---------------------------------------------------------------------------
(* handleRequest *)

\* the 200 of the dashboard and of /api/routes, lines 140-151
ControlSurface(r) ==
    [r EXCEPT !.status = 200,
              !.body = IF r.url = "/api/routes" THEN <<"application/json">>
                       ELSE <<"Emdash Proxy Dashboard">>,
              !.client = "ended"]

\* the 502 of lines 154-163
UnknownRoute(r, subdomain) ==
    [r EXCEPT !.status = 502,
              !.body = <<"502 - Unknown route">> \o subdomain,
              !.client = "ended"]

\* http.request(...) with `headers: req.headers`: the client's Host is kept
ProxyReq_KeepsHost(r, route) ==
    [r EXCEPT !.out = [hostname |-> route.targetHost, port |-> route.targetPort,
                       path |-> r.url, method |-> r.method,
                       host |-> [hostname |-> "localhost", port |-> port]],
              !.target = "open"]

\* http.request(...), lines 168-175
ProxyReq(r, route) ==
    [r EXCEPT !.out = [hostname |-> route.targetHost, port |-> route.targetPort,
                       path |-> r.url, method |-> r.method, host |-> HostHeader(route)],
              !.target = "open"]

\* handleRequest that forwards to the route registered first, whatever the subdomain
HandleRequest_AnyRoute(host, line) ==
    LET subdomain == extractSubdomain(host)
        r == NewReq("request", host, line) IN
    /\ CanDispatch
    /\ nreqs' = nreqs + 1
    /\ IF subdomain = NoSubdomain
       THEN /\ reqs' = reqs \cup {ControlSurface(r)}
            /\ UNCHANGED routes
       ELSE IF routes = NoRoutes
       THEN /\ reqs' = reqs \cup {UnknownRoute(r, subdomain)}
            /\ UNCHANGED routes
       ELSE LET n == CHOOSE n \in DOMAIN routes : TRUE IN
            /\ routes' = Touch(n)
            /\ reqs' = reqs \cup {ProxyReq(r, routes[n])}
    /\ UNCHANGED <<server, port, events, socks, calls, ncalls, ret, taskSlugMap>>

\* handleRequest(req, res), lines 137-190, up to req.pipe(proxyReq)
HandleRequest(host, line) ==
    LET subdomain == extractSubdomain(host)
        r == NewReq("request", host, line) IN
    /\ CanDispatch
    /\ nreqs' = nreqs + 1
    /\ IF subdomain = NoSubdomain
       THEN /\ reqs' = reqs \cup {ControlSurface(r)}
            /\ UNCHANGED routes
       ELSE IF subdomain \notin DOMAIN routes
       THEN /\ reqs' = reqs \cup {UnknownRoute(r, subdomain)}
            /\ UNCHANGED routes
       ELSE /\ routes' = Touch(subdomain)
            /\ reqs' = reqs \cup {ProxyReq(r, routes[subdomain])}
    /\ UNCHANGED <<server, port, events, socks, calls, ncalls, ret, taskSlugMap>>

\* the response callback, lines 176-179: res.writeHead(status, headers), then
\* proxyRes.pipe(res) has the body to deliver
ProxyRes(r, response) ==
    /\ r \in reqs /\ r.kind = "request" /\ r.target = "open" /\ r.status = NoStatus
    /\ reqs' = Put(r, [r EXCEPT !.status = response.status, !.pending = response.body])
    /\ UNCHANGED <<server, port, routes, events, socks, calls, ncalls, ret, nreqs, taskSlugMap>>

\* proxyRes.pipe(res, { end: true }): the body arrives and the response ends
ProxyEnd(r) ==
    /\ r \in reqs /\ r.kind = "request" /\ r.target = "open" /\ r.status # NoStatus
    /\ reqs' = Put(r, [r EXCEPT !.body = r.pending, !.pending = <<>>,
                                !.target = "closed", !.client = "ended"])
    /\ UNCHANGED <<server, port, routes, events, socks, calls, ncalls, ret, nreqs, taskSlugMap>>

\* an 'error' handler that also marks every route as failed
ProxyError_MarksRoutes(r, err) ==
    /\ r \in reqs /\ r.kind = "request" /\ r.target = "open"
    /\ reqs' = Put(r, [r EXCEPT !.status = IF r.status = NoStatus THEN 502 ELSE r.status,
                                !.body = <<"Proxy error: ", err>>,
                                !.pending = <<>>,
                                !.target = "closed", !.client = "ended"])
    /\ routes' = [n \in DOMAIN routes |-> [routes[n] EXCEPT !.status = "error"]]
    /\ UNCHANGED <<server, port, events, socks, calls, ncalls, ret, nreqs, taskSlugMap>>

\* proxyReq.on('error'), lines 182-188: writeHead(502) unless res.headersSent,
\* then res.end(`Proxy error: ${err.message}`)
ProxyError(r, err) ==
    /\ r \in reqs /\ r.kind = "request" /\ r.target = "open"
    /\ reqs' = Put(r, [r EXCEPT !.status = IF r.status = NoStatus THEN 502 ELSE r.status,
                                !.body = <<"Proxy error: ", err>>,
                                !.pending = <<>>,
                                !.target = "closed", !.client = "ended"])
    /\ UNCHANGED <<server, port, routes, events, socks, calls, ncalls, ret, nreqs, taskSlugMap>>

---------------------------------------------------------------------------
(* handleUpgrade *)

\* The client socket of an upgrade comes from the http server (allowHalfOpen):
\* "open", "readEnded" once the client has sent FIN, "writeEnded" once end() was
\* called on it, "destroyed". The target socket comes from net.createConnection:
\* "connecting", "open", "writeEnded" once end() was called on it, "destroyed";
\* it is destroyed as soon as the backend sends FIN.

\* net.createConnection({ host, port }), lines 210-211
TargetSocket(r, route) ==
    [r EXCEPT !.out = [hostname |-> route.targetHost, port |-> route.targetPort],
              !.target = "connecting"]

\* handleUpgrade that answers an unknown route and leaves the socket open
HandleUpgrade_Answers(host, line) ==
    LET subdomain == extractSubdomain(host)
        r == NewReq("upgrade", host, line) IN
    /\ CanDispatch
    /\ nreqs' = nreqs + 1
    /\ IF subdomain = NoSubdomain \/ subdomain \notin DOMAIN routes
       THEN /\ reqs' = reqs \cup {[r EXCEPT !.status = 502]}
            /\ UNCHANGED routes
       ELSE /\ routes' = Touch(subdomain)
            /\ reqs' = reqs \cup {TargetSocket(r, routes[subdomain])}
    /\ UNCHANGED <<server, port, events, socks, calls, ncalls, ret, taskSlugMap>>

\* handleUpgrade(req, clientSocket, head), lines 195-211 and 232-237
HandleUpgrade(host, line) ==
    LET subdomain == extractSubdomain(host)
        r == NewReq("upgrade", host, line) IN
    /\ CanDispatch
    /\ nreqs' = nreqs + 1
    /\ IF subdomain = NoSubdomain \/ subdomain \notin DOMAIN routes
       THEN /\ reqs' = reqs \cup {[r EXCEPT !.client = "destroyed"]}
            /\ UNCHANGED routes
       ELSE /\ routes' = Touch(subdomain)
            /\ reqs' = reqs \cup {TargetSocket(r, routes[subdomain])}
    /\ UNCHANGED <<server, port, events, socks, calls, ncalls, ret, taskSlugMap>>

\* the connect callback, lines 212-229: the request line and the host header are
\* written to the target and the two sockets are piped into each other; a client
\* whose readable side has ended already ends the target
TargetConnect(r) ==
    /\ r \in reqs /\ r.kind = "upgrade" /\ r.target = "connecting"
    /\ reqs' = Put(r, [r EXCEPT !.sent = [method |-> r.method, url |-> r.url,
                                          httpVersion |-> HttpVersion,
                                          host |-> r.out],
                                !.target = IF r.client = "readEnded" THEN "writeEnded"
                                           ELSE "open"])
    /\ UNCHANGED <<server, port, routes, events, socks, calls, ncalls, ret, nreqs, taskSlugMap>>

\* targetSocket.on('error'), lines 232-234: connection refused, reset
TargetError(r) ==
    /\ r \in reqs /\ r.kind = "upgrade"
    /\ r.target \in {"connecting", "open", "writeEnded"}
    /\ reqs' = Put(r, [r EXCEPT !.target = "destroyed", !.client = "destroyed"])
    /\ UNCHANGED <<server, port, routes, events, socks, calls, ncalls, ret, nreqs, taskSlugMap>>

\* a handler of the client's 'error' that leaves the target alone
ClientError_KeepsTarget(r) ==
    /\ r \in reqs /\ r.kind = "upgrade" /\ r.client # "destroyed"
    /\ reqs' = Put(r, [r EXCEPT !.client = "destroyed"])
    /\ UNCHANGED <<server, port, routes, events, socks, calls, ncalls, ret, nreqs, taskSlugMap>>

\* clientSocket.on('error'), lines 235-237
ClientError(r) ==
    /\ r \in reqs /\ r.kind = "upgrade" /\ r.client # "destroyed"
    /\ reqs' = Put(r, [r EXCEPT !.client = "destroyed",
                                !.target = IF r.target = "none" THEN "none" ELSE "destroyed"])
    /\ UNCHANGED <<server, port, routes, events, socks, calls, ncalls, ret, nreqs, taskSlugMap>>

\* the backend closes its side (FIN): targetSocket.pipe(clientSocket), line 227,
\* ends the client socket; nothing destroys it until the client closes too
TargetEnd(r) ==
    /\ r \in reqs /\ r.kind = "upgrade" /\ r.target \in {"open", "writeEnded"}
    /\ reqs' = Put(r, [r EXCEPT !.target = "destroyed",
                                !.client = IF r.client = "readEnded" THEN "destroyed"
                                           ELSE "writeEnded"])
    /\ UNCHANGED <<server, port, routes, events, socks, calls, ncalls, ret, nreqs, taskSlugMap>>

\* the client closes its side (FIN): clientSocket.pipe(targetSocket), line 228,
\* ends the target socket once the pipe exists
ClientEnd(r) ==
    /\ r \in reqs /\ r.kind = "upgrade" /\ r.client \in {"open", "writeEnded"}
    /\ reqs' = Put(r, [r EXCEPT !.client = IF r.client = "writeEnded" THEN "destroyed"
                                           ELSE "readEnded",
                                !.target = IF r.target = "open" THEN "writeEnded"
                                           ELSE r.target])
    /\ UNCHANGED <<server, port, routes, events, socks, calls, ncalls, ret, nreqs, taskSlugMap>>

---------------------------------------------------------------------------
(* The task integration *)

\* the task ids of url and exit events, with the characters of each
TaskIds == {"My App", "my-app", "--", "aaaaaaaaaaaaaaaaaaaaaaaaaaaaa bc"}
Spelling(taskId) ==
    CASE taskId = "My App" -> <<"M", "y", " ", "A", "p", "p">>
      [] taskId = "my-app" -> <<"m", "y", "-", "a", "p", "p">>
      [] taskId = "--" -> <<"-", "-">>
      [] taskId = "aaaaaaaaaaaaaaaaaaaaaaaaaaaaa bc" ->
            [i \in 1..29 |-> "a"] \o <<" ", "b", "c">>
\* the urls of url events: whether new URL(url) parses it, and its port (0 when
\* the url names none)
PreviewUrls == {[parses |-> TRUE, port |-> 5173], [parses |-> TRUE, port |-> 0],
                [parses |-> FALSE, port |-> 0]}
MaxSlugLen == 30

UpperCase == <<"A", "B", "C", "D", "E", "F", "G", "H", "I", "J", "K", "L", "M",
               "N", "O", "P", "Q", "R", "S", "T", "U", "V", "W", "X", "Y", "Z">>
LowerCase == <<"a", "b", "c", "d", "e", "f", "g", "h", "i", "j", "k", "l", "m",
               "n", "o", "p", "q", "r", "s", "t", "u", "v", "w", "x", "y", "z">>
toLowerCase(ch) ==
    IF ch \in Upper
    THEN LowerCase[CHOOSE i \in 1..Len(UpperCase) : UpperCase[i] = ch]
    ELSE ch

\* .replace(/-+/g, '-')
RECURSIVE Squeeze(_)
Squeeze(seq) ==
    IF Len(seq) <= 1 THEN seq
    ELSE IF seq[1] = "-" /\ seq[2] = "-" THEN Squeeze(Tail(seq))
    ELSE <<seq[1]>> \o Squeeze(Tail(seq))

\* .replace(/^-/, '') and .replace(/-$/, '')
StripLeading(seq) == IF seq # <<>> /\ seq[1] = "-" THEN Tail(seq) ELSE seq
StripTrailing(seq) ==
    IF seq # <<>> /\ seq[Len(seq)] = "-" THEN SubSeq(seq, 1, Len(seq) - 1) ELSE seq

\* toSlug(taskId), lines 362-372
toSlug(taskId) ==
    LET chars == Spelling(taskId)
        lower == [i \in 1..Len(chars) |-> toLowerCase(chars[i])]
        dashed == [i \in 1..Len(lower) |->
                        IF lower[i] \in AlNum \cup {"-"} THEN lower[i] ELSE "-"]
        trimmed == StripTrailing(StripLeading(Squeeze(dashed)))
        sliced == SubSeq(trimmed, 1, IF Len(trimmed) < MaxSlugLen THEN Len(trimmed)
                                     ELSE MaxSlugLen)
        slug == StripTrailing(sliced)
    IN IF slug = <<>> THEN <<"t", "a", "s", "k">> ELSE slug

\* `${i}`
DigitChars == <<"0", "1", "2", "3", "4", "5", "6", "7", "8", "9">>
RECURSIVE Decimal(_)
Decimal(n) ==
    IF n < 10 THEN <<DigitChars[n + 1]>>
    ELSE Decimal(n \div 10) \o <<DigitChars[(n % 10) + 1]>>

\* uniqueSlug(base), lines 377-384
uniqueSlug(base) ==
    LET free == {i \in 2..99 : getRoute(base \o <<"-">> \o Decimal(i)) = NoRoute} IN
    IF getRoute(base) = NoRoute THEN base
    ELSE IF free # {}
    THEN base \o <<"-">> \o Decimal(CHOOSE i \in free : \A k \in free : i <= k)
    ELSE base \o <<"-">> \o Decimal(Now)

\* parsePort(url), lines 420-428: null unless the url parses and its port is positive
parsePort(url) == IF url.parses /\ url.port > 0 THEN url.port ELSE NoPort

\* the listener of hostPreviewService on an event of type 'url', lines 392-406:
\* addRoute is called and not awaited
UrlEvent(taskId, url) ==
    LET parsed == parsePort(url)
        slug == uniqueSlug(toSlug(taskId)) IN
    IF parsed = NoPort THEN UNCHANGED vars
    ELSE /\ taskSlugMap' = [t \in DOMAIN taskSlugMap \cup {taskId} |->
                                IF t = taskId THEN slug ELSE taskSlugMap[t]]
         /\ addRoute(slug, parsed, [taskId |-> taskId, targetHost |-> NoHost])

\* the listener on an event of type 'exit', lines 408-413
ExitEvent(taskId) ==
    IF taskId \in DOMAIN taskSlugMap
    THEN UpdateRouteStatus(taskSlugMap[taskId], "stopped")
    ELSE UNCHANGED vars

---------------------------------------------------------------------------
(* The specifications *)

Init ==
    /\ server = NoServer
    /\ port = NoPort
    /\ routes = NoRoutes
    /\ events = <<>>
    /\ socks = {}
    /\ calls = {}
    /\ ncalls = 0
    /\ ret = [id |-> 0, op |-> "none"]
    /\ reqs = {}
    /\ nreqs = 0
    /\ taskSlugMap = NoTasks

\* a caller invokes a method of the service
Call ==
    \/ \E p \in PreferredPorts : StartCall(p)
    \/ StopCall
    \/ \E name \in Names, args \in AddRouteArgs : AddRouteCall(name, args[1], args[2])
    \/ \E name \in Names : RemoveRoute(name)
    \/ \E name \in Names, status \in PROXY_ROUTE_STATUSES : UpdateRouteStatus(name, status)

\* a suspended call goes on
Step ==
    \/ \E c \in calls : ~Microtask /\ PickAvailablePort(c)
    \/ \E c \in calls : ~Microtask /\ Listening(c)
    \/ \E c \in calls : ~Microtask /\ ListenError(c)
    \/ \E c \in calls : AddRouteResume(c)
    \/ \E c \in calls : ~Microtask /\ Closed(c.sock)

\* callers whose calls may overlap
Next == (CanIssue /\ ~Microtask /\ Call) \/ Step
Spec == Init /\ [][Next]_vars

\* one caller, who awaits each call before issuing the next
SeqNext == (CanIssue /\ calls = {} /\ Call) \/ Step
SeqSpec == Init /\ [][SeqNext]_vars

\* one caller, whose calls are start, addRoute(n), removeRoute(n), stop, each awaited
ScriptName == IF ret.threw THEN ret.error[2] ELSE ret.value.name
ScriptCall ==
    /\ calls = {}
    /\ \/ ncalls = 0 /\ \E p \in PreferredPorts : StartCall(p)
       \/ ncalls = 1 /\ \E name \in Names, args \in AddRouteArgs :
                            AddRouteCall(name, args[1], args[2])
       \/ ncalls = 2 /\ RemoveRoute(ScriptName)
       \/ ncalls = 3 /\ StopCall
ScriptNext == ScriptCall \/ Step
ScriptSpec == Init /\ [][ScriptNext]_vars

\* the server dispatches a request or an upgrade to its handler
Dispatch ==
    \/ \E q \in Requests : ~Microtask /\ q[1] = "request" /\ HandleRequest(q[2], q[3])
    \/ \E q \in Requests : ~Microtask /\ q[1] = "upgrade" /\ HandleUpgrade(q[2], q[3])

\* a backend or a client acts on a request in flight
Relay ==
    \/ \E r \in reqs, response \in BackendResponses : ~Microtask /\ ProxyRes(r, response)
    \/ \E r \in reqs : ~Microtask /\ ProxyEnd(r)
    \/ \E r \in reqs, err \in UpstreamErrors : ~Microtask /\ ProxyError(r, err)
    \/ \E r \in reqs : ~Microtask /\ TargetConnect(r)
    \/ \E r \in reqs : ~Microtask /\ TargetError(r)
    \/ \E r \in reqs : ~Microtask /\ ClientError(r)
    \/ \E r \in reqs : ~Microtask /\ TargetEnd(r)
    \/ \E r \in reqs : ~Microtask /\ ClientEnd(r)

\* The proxy at work: start() has returned ok: true with the first default port,
\* one caller goes on with awaited calls that register routes under slugs, and
\* clients and backends act at any time.
RouteNames == {name \in Names : SLUG_RE(name)}
ProxyInit ==
    /\ server = 1
    /\ port = DEFAULT_PORTS[1]
    /\ routes = NoRoutes
    /\ events = <<[type |-> "started", route |-> NoRoute, error |-> NoError, timestamp |-> 1]>>
    /\ socks = {[id |-> 1, port |-> DEFAULT_PORTS[1]]}
    /\ calls = {}
    /\ ncalls = 1
    /\ ret = StartResult(1, TRUE, DEFAULT_PORTS[1], NoError)
    /\ reqs = {}
    /\ nreqs = 0
    /\ taskSlugMap = NoTasks
ProxyCall ==
    \/ StartCall(NoPort)
    \/ StopCall
    \/ \E name \in RouteNames, args \in AddRouteArgs : AddRouteCall(name, args[1], args[2])
    \/ \E name \in RouteNames : RemoveRoute(name)
    \/ \E name \in RouteNames, status \in PROXY_ROUTE_STATUSES :
            UpdateRouteStatus(name, status)
ProxyNext == (CanIssue /\ calls = {} /\ ProxyCall) \/ Step \/ Dispatch \/ Relay
ProxySpec == ProxyInit /\ [][ProxyNext]_vars

\* The running proxy seen by Host header: one caller registers and removes
\* routes under any name, each call awaited, and clients send requests with any
\* of the Host values.
HostCall ==
    \/ \E name \in Names : AddRouteCall(name, 3000, NoOpts)
    \/ \E name \in RouteNames : RemoveRoute(name)
HostDispatch == \E host \in Hosts, line \in RequestLines : HandleRequest(host, line)
HostNext == (CanIssue /\ HostCall) \/ HostDispatch
HostSpec == ProxyInit /\ [][HostNext]_vars

\* The task integration on a Stopped engine: url and exit events of tasks arrive
\* at any time, and nothing else calls the service.
IntegrationNext ==
    \/ \E taskId \in TaskIds, url \in PreviewUrls :
            CanIssue /\ ~Microtask /\ UrlEvent(taskId, url)
    \/ \E taskId \in TaskIds : CanIssue /\ ~Microtask /\ ExitEvent(taskId)
    \/ \E c \in calls : ~Microtask /\ PickAvailablePort(c)
    \/ \E c \in calls : ~Microtask /\ Listening(c)
    \/ \E c \in calls : ~Microtask /\ ListenError(c)
    \/ \E c \in calls : AddRouteResume(c)
IntegrationSpec == Init /\ [][IntegrationNext]_vars

---------------------------------------------------------------------------
(* What the claims are stated with *)

\* the slug grammar in words: one or more lowercase letters, digits and hyphens,
\* with no hyphen at either end
IsSlug(name) ==
    /\ name # <<>>
    /\ \A i \in 1..Len(name) : name[i] \notin Upper \cup {" "}
    /\ \A i \in 1..Len(name) : name[i] \in AlNum \cup {"-"}
    /\ name[1] # "-"
    /\ name[Len(name)] # "-"

\* call c is suspended now and has settled or moved on after the step
Suspended(c) == c \in calls
Settles(c) == c \in calls /\ \A d \in calls' : d.id # c.id
Published(evs) == events' = events \o evs
Last(seq) == seq[Len(seq)]
Types(evs) == [i \in 1..Len(evs) |-> evs[i].type]

RECURSIVE IsSubseq(_, _)
IsSubseq(sub, seq) ==
    IF sub = <<>> THEN TRUE
    ELSE IF seq = <<>> THEN FALSE
    ELSE IF Head(sub) = Head(seq) THEN IsSubseq(Tail(sub), Tail(seq))
    ELSE IsSubseq(sub, Tail(seq))

\* the step is an addRoute that returns a new route for `name` and registers it
AddRouteSucceeds(id, name, targetPort) ==
    /\ ret'.id = id /\ ret'.op = "addRoute" /\ ~ret'.threw
    /\ ret'.value.name = name
    /\ ret'.value.targetPort = targetPort
    /\ ret'.value.status = "running"
    /\ DOMAIN routes' = DOMAIN routes \cup {name}
    /\ routes'[name] = ret'.value
    /\ \A n \in DOMAIN routes \ {name} : routes'[n] = routes[n]
    /\ Len(events') = Len(events) + 1
    /\ SubSeq(events', 1, Len(events)) = events
    /\ Last(events').type = "route:added"
    /\ Last(events').route = ret'.value

---------------------------------------------------------------------------
(* The claims *)

\* C1: with each call awaited before the next, addRoute of a slug that is not
\* registered returns a route and registers it, and addRoute of a registered name
\* throws 'already exists' and leaves routes, events and the engine as they were.
C1_AddRouteOncePerName ==
    [][/\ \A name \in Names, args \in AddRouteArgs :
            (IsSlug(name) /\ AddRouteCall(name, args[1], args[2])) =>
                IF name \in DOMAIN routes
                THEN /\ ret' = Thrown(ncalls + 1, "already exists", name)
                     /\ UNCHANGED <<routes, events, server, port, socks, calls>>
                ELSE \/ AddRouteSucceeds(ncalls + 1, name, args[1])
                     \/ /\ \E c \in calls' : c.id = ncalls + 1 /\ c.name = name
                        /\ UNCHANGED <<routes, events, ret>>
       /\ \A c \in calls :
            (c.op = "addRoute" /\ Settles(c)) =>
                /\ c.name \notin DOMAIN routes
                /\ AddRouteSucceeds(c.id, c.name, c.targetPort)
      ]_vars

\* a second addRoute of a registered name was refused
C1_Witness ==
    /\ ret.op = "addRoute" /\ ret.threw
    /\ ret.error[1] = "already exists"
    /\ ret.error[2] \in DOMAIN routes

\* C2: addRoute of a name that is no slug throws 'Invalid route name' and changes
\* nothing, whatever the state of the engine.
C2_InvalidNameRejected ==
    [][\A name \in Names, args \in AddRouteArgs :
            (~IsSlug(name) /\ AddRouteCall(name, args[1], args[2])) =>
                /\ ret' = Thrown(ncalls + 1, "Invalid route name", name)
                /\ UNCHANGED <<routes, events, server, port, socks, calls>>
      ]_vars

\* an invalid name was refused by a running engine that holds a route
C2_Witness ==
    /\ ret.op = "addRoute" /\ ret.threw
    /\ ret.error[1] = "Invalid route name"
    /\ server # NoServer
    /\ routes # NoRoutes

\* an invalid name was refused by a stopped engine
C2_WitnessStopped ==
    /\ ret.op = "addRoute" /\ ret.threw
    /\ ret.error[1] = "Invalid route name"
    /\ server = NoServer

\* C3: whenever the engine is Stopped (no server, no port) the registry is empty.
C3_StoppedRegistryEmpty ==
    (server = NoServer /\ port = NoPort) => routes = NoRoutes

\* C4: an addRoute that found the engine Stopped returns with the engine Running
\* and a url that embeds the port its implicit start bound.
C4_AutoStartRunsBeforeRoute ==
    [][\A c \in calls :
            (c.op = "addRoute" /\ Settles(c)) =>
                /\ server # NoServer
                /\ [id |-> c.id, port |-> c.chosen] \in socks
                /\ ~ret'.threw
                /\ ret'.value.url = Url(c.name, c.chosen)
      ]_vars

\* C5: when a stop() of a Running engine completes, getState() is
\* {running: false, port: null, routes: []} whatever routes there were; stop() of
\* a Stopped engine returns ok and changes nothing.
C5_StopResetsState ==
    [][/\ \A c \in calls :
            (c.op = "stop" /\ Settles(c)) =>
                /\ getState' = [running |-> FALSE, port |-> NoPort, routes |-> {}]
                /\ ret'.op = "stop" /\ ret'.ok
       /\ (server = NoServer /\ StopCall) =>
                /\ ret' = StopResult(ncalls + 1)
                /\ UNCHANGED <<server, port, routes, events, socks, calls>>
      ]_vars

\* a stop() has completed on an engine that held two routes
C5_Witness ==
    /\ ret.op = "stop" /\ ret.id = ncalls
    /\ Len(events) >= 3
    /\ events[Len(events) - 2].type = "route:added"
    /\ events[Len(events) - 1].type = "route:added"
    /\ Last(events).type = "stopped"

\* C6: removeRoute of a registered name returns true, publishes one route:removed
\* with that route and leaves getRoute(name) absent; removeRoute of an absent name
\* returns false and changes nothing.
C6_RemoveRoute ==
    [][\A name \in Names :
            RemoveRoute(name) =>
                IF name \in DOMAIN routes
                THEN /\ ret' = Returned(ncalls + 1, "removeRoute", TRUE)
                     /\ Len(events') = Len(events) + 1
                     /\ SubSeq(events', 1, Len(events)) = events
                     /\ Last(events').type = "route:removed"
                     /\ Last(events').route = routes[name]
                     /\ getRoute(name)' = NoRoute
                     /\ \A n \in DOMAIN routes \ {name} : getRoute(n)' = routes[n]
                     /\ UNCHANGED <<server, port, socks, calls>>
                ELSE /\ ret' = Returned(ncalls + 1, "removeRoute", FALSE)
                     /\ UNCHANGED <<routes, events, server, port, socks, calls>>
      ]_vars

\* a route was removed and a second removeRoute returned false
C6_Witness ==
    /\ ret = Returned(ncalls, "removeRoute", FALSE)
    /\ events # <<>>
    /\ Last(events).type = "route:removed"

\* C7 as claimed: once start, addRoute(n), removeRoute(n) and stop have each been
\* awaited, the listener has seen started, route:added, route:removed and stopped
\* in that order.
Script == <<"start", "addRoute", "removeRoute", "stop">>
LifecycleEvents == <<"started", "route:added", "route:removed", "stopped">>
ScriptDone == ncalls = Len(Script) /\ calls = {}
StartReturnedOk == ncalls = 1 /\ calls = {} /\ ret.op = "start" /\ ret.ok
AddRouteOfSlugReturned == ncalls = 2 /\ calls = {} /\ ret.op = "addRoute" /\ IsSlug(ScriptName)
C7_Original == ScriptDone => IsSubseq(LifecycleEvents, Types(events))

\* C7: when the start of the sequence returned ok: true and n is a slug, the
\* listener has seen started, route:added, route:removed and stopped in that
\* order once the four calls have been awaited.
C7_LifecycleEventOrder ==
    [](StartReturnedOk =>
        [](AddRouteOfSlugReturned =>
            [](ScriptDone => IsSubseq(LifecycleEvents, Types(events)))))

\* the four calls are done and the listener saw exactly the four events
C7_Witness == ScriptDone /\ Types(events) = LifecycleEvents

HasPreferred(c) == Len(c.cands) > Len(DEFAULT_PORTS)
OsAssigned == EphemeralPorts \cup {FallbackPort}
ProbeEnds(c) == c \in calls /\ c.op = "start" /\ c.pc = "probe" /\ c \notin calls'
BindEnds(c) == c \in calls /\ c.pc = "listen" /\ c \notin calls'

\* C8 as claimed: start(preferred) probes [preferred, defaults...] in order and
\* binds the first candidate found free, an OS-assigned port when none is; with
\* the preferred port occupied it returns ok: true and a port other than preferred.
C8_Original ==
    [][/\ \A p \in PreferredPorts \ {NoPort, 0} :
            (server = NoServer /\ StartCall(p)) =>
                \E c \in calls' : c.id = ncalls + 1 /\ c.cands = <<p>> \o DEFAULT_PORTS
       /\ \A c \in calls :
            ProbeEnds(c) =>
                \E d \in calls' :
                    /\ d.id = c.id
                    /\ IF d.busy < Len(c.cands) THEN d.chosen = c.cands[d.busy + 1]
                       ELSE d.chosen \in EphemeralPorts
       /\ \A c \in calls :
            (c.op = "start" /\ BindEnds(c)) =>
                /\ [id |-> c.id, port |-> c.chosen] \in socks'
                /\ (HasPreferred(c) /\ c.busy >= 1) =>
                        (ret'.ok /\ ret'.port # c.cands[1])
      ]_vars

\* C8: start(preferred) with a preferred port other than 0 probes [preferred,
\* defaults...] in order and goes on to bind the first candidate found free, or
\* when none is the port the OS assigned (9000 when that fails); it binds no other
\* port, and returns ok: true with that port when the bind succeeds and ok: false
\* with nothing bound when it fails.
C8_PortSelection ==
    [][/\ \A p \in PreferredPorts \ {NoPort, 0} :
            (server = NoServer /\ StartCall(p)) =>
                \E c \in calls' :
                    /\ c.id = ncalls + 1 /\ c.op = "start" /\ c.pc = "probe"
                    /\ c.cands = <<p>> \o DEFAULT_PORTS
       /\ \A c \in calls :
            ProbeEnds(c) =>
                \E d \in calls' :
                    /\ d.id = c.id /\ d.pc = "listen" /\ d.cands = c.cands
                    /\ d.busy \in 0..Len(c.cands)
                    /\ IF d.busy < Len(c.cands) THEN d.chosen = c.cands[d.busy + 1]
                       ELSE d.chosen \in OsAssigned
                    /\ UNCHANGED <<server, port, socks>>
       /\ \A c \in calls :
            (c.op = "start" /\ BindEnds(c)) =>
                /\ ret'.id = c.id /\ ret'.op = "start"
                /\ IF ret'.ok
                   THEN /\ ret'.port = c.chosen
                        /\ socks' = socks \cup {[id |-> c.id, port |-> c.chosen]}
                        /\ server' = c.id /\ port' = c.chosen
                   ELSE UNCHANGED <<server, port, socks>>
      ]_vars

\* start returned ok: true with the port the OS assigned: every candidate was
\* found occupied, and the service now listens on that port
C8_Witness ==
    /\ ret.op = "start" /\ ret.ok
    /\ ret.port \in EphemeralPorts
    /\ server = ret.id
    /\ [id |-> ret.id, port |-> ret.port] \in socks

\* C9: with each call awaited, a bind that fails after the probe leaves the
\* engine Stopped (no server, no port, the registry and the sockets as they
\* were), publishes one error event, makes start() return ok: false with an
\* error, and is followed by no further probe or bind of that call.
C9_BindFailure ==
    [][\A c \in calls :
            (BindEnds(c) /\ [id |-> c.id, port |-> c.chosen] \notin socks') =>
                /\ server = NoServer /\ port = NoPort
                /\ UNCHANGED <<server, port, routes, socks>>
                /\ Len(events') = Len(events) + 1
                /\ SubSeq(events', 1, Len(events)) = events
                /\ Last(events').type = "error"
                /\ Last(events').error # NoError
                /\ c.op = "start" =>
                        /\ Settles(c)
                        /\ ret'.id = c.id /\ ret'.op = "start"
                        /\ ~ret'.ok /\ ret'.error # NoError
                /\ \A d \in calls' : d.id = c.id => d.pc = "resume"
      ]_vars

\* start() returned ok: false and the engine is Stopped
C9_Witness ==
    /\ ret.op = "start" /\ ~ret.ok
    /\ ret.id = ncalls
    /\ server = NoServer /\ port = NoPort
    /\ Last(events).type = "error"

\* C10: start(p) on an engine that holds a server returns ok: true with the
\* current port and changes neither the server, the port, the sockets, the
\* registry nor the events.
C10_StartWhileRunning ==
    [][\A p \in PreferredPorts :
            (server # NoServer /\ StartCall(p)) =>
                /\ ret' = StartResult(ncalls + 1, TRUE, port, NoError)
                /\ UNCHANGED <<server, port, routes, events, socks, calls>>
      ]_vars

\* a start() returned ok: true from an engine another call had started
C10_Witness ==
    /\ ret.op = "start" /\ ret.ok
    /\ ret.id = ncalls
    /\ server # NoServer /\ server # ret.id
    /\ ret.port = port

\* the Host values <name>.localhost and <name>.localhost:<port>
HostsOf(name) ==
    {name \o <<".localhost">>} \cup {name \o <<".localhost", ":", d>> : d \in Digits}
Range(seq) == {seq[i] : i \in 1..Len(seq)}
\* the request or upgrade dispatched by the step
Dispatched == CHOOSE r \in reqs' : r.id = nreqs + 1
\* the request r as it is after the step
After(r) == CHOOSE d \in reqs' : d.id = r.id
\* the fields of a route nothing may change
Identity(route) ==
    <<route.name, route.targetHost, route.targetPort, route.taskId, route.url,
      route.registeredAt>>

\* C11: an HTTP request whose Host names a slug that has no route is answered
\* with status 502 and a body that says 'Unknown route'; no outbound request is
\* opened for it, then or later, and the registry is not touched.
C11_UnknownRoute502 ==
    [][/\ \A q \in Requests, name \in Names :
            (/\ q[1] = "request" /\ IsSlug(name) /\ q[2] \in HostsOf(name)
             /\ name \notin DOMAIN routes
             /\ HandleRequest(q[2], q[3])) =>
                /\ Dispatched.status = 502
                /\ "502 - Unknown route" \in Range(Dispatched.body)
                /\ Dispatched.client = "ended"
                /\ Dispatched.out = NoOut /\ Dispatched.target = "none"
                /\ UNCHANGED routes
       /\ \A r \in reqs :
            (r.kind = "request" /\ r.out = NoOut) => r \in reqs'
      ]_vars

\* a request for a slug without a route got a 502 while another route was registered
C11_Witness ==
    \E r \in reqs :
        /\ r.kind = "request" /\ r.status = 502 /\ r.out = NoOut
        /\ extractSubdomain(r.host) \notin DOMAIN routes
        /\ routes # NoRoutes

\* C12: an HTTP request whose Host names a registered route opens one outbound
\* request to that route's targetHost:targetPort with the client's method and url
\* and the Host header targetHost:targetPort, and sets the route's lastAccessed;
\* the status the backend answers is the client's status, and the body the
\* backend sends is the client's body when the response ends.
C12_ForwardToRoute ==
    [][/\ \A q \in Requests, name \in Names :
            (/\ q[1] = "request" /\ q[2] \in HostsOf(name) /\ name \in DOMAIN routes
             /\ HandleRequest(q[2], q[3])) =>
                /\ Dispatched.out =
                        [hostname |-> routes[name].targetHost,
                         port |-> routes[name].targetPort,
                         path |-> q[3][2], method |-> q[3][1],
                         host |-> [hostname |-> routes[name].targetHost,
                                   port |-> routes[name].targetPort]]
                /\ Dispatched.status = NoStatus /\ Dispatched.client = "open"
                /\ DOMAIN routes' = DOMAIN routes
                /\ routes'[name].lastAccessed > routes[name].lastAccessed
                /\ routes'[name] = [routes[name] EXCEPT
                                        !.lastAccessed = routes'[name].lastAccessed]
                /\ \A n \in DOMAIN routes \ {name} : routes'[n] = routes[n]
       /\ \A r \in reqs, response \in BackendResponses :
            ProxyRes(r, response) =>
                /\ After(r).status = response.status
                /\ After(r).pending = response.body
                /\ After(r).out = r.out
       /\ \A r \in reqs :
            ProxyEnd(r) =>
                /\ After(r).status = r.status
                /\ After(r).body = r.pending
                /\ After(r).client = "ended"
                /\ After(r).out = r.out
      ]_vars

\* a client got the 200 and the body of the backend at 10.0.0.5:3001
C12_Witness ==
    \E r \in reqs :
        /\ r.kind = "request" /\ r.client = "ended"
        /\ r.status = 200 /\ r.body = <<"he", "llo">>
        /\ r.out # NoOut
        /\ r.out.hostname = "10.0.0.5" /\ r.out.port = 3001
        /\ r.out.path = "/path?q=1"

\* C13: when the outbound request of a forwarded HTTP request fails, a client
\* that has been sent nothing gets a 502 whose body holds the reason, a client
\* that has been sent the response headers has its connection terminated, and
\* no outbound request is opened again.
C13_UpstreamFailure ==
    [][\A r \in reqs, err \in UpstreamErrors :
            ProxyError(r, err) =>
                /\ IF r.status = NoStatus
                   THEN /\ After(r).status = 502
                        /\ err \in Range(After(r).body)
                        /\ After(r).client = "ended"
                   ELSE After(r).client = "destroyed"
                /\ After(r).target = "closed" /\ After(r).out = r.out
      ]_vars

\* C14: a tunnel never has one of its two sockets destroyed while the other one
\* is not.
C14_TunnelTornDownTogether ==
    \A r \in reqs :
        (r.kind = "upgrade" /\ r.out # NoOut) =>
            (r.client = "destroyed" <=> r.target = "destroyed")

\* C15: an Upgrade request whose Host names no registered route has its socket
\* destroyed at once, with nothing written to it and no connection opened, then
\* or later; an Upgrade request whose Host names a registered route opens a
\* connection to that route's targetHost:targetPort, and once connected the
\* client's method, url and HTTP version are written with the Host header
\* targetHost:targetPort.
C15_UpgradeDispatch ==
    [][/\ \A q \in Requests :
            (/\ q[1] = "upgrade"
             /\ ~\E name \in DOMAIN routes : q[2] \in HostsOf(name)
             /\ HandleUpgrade(q[2], q[3])) =>
                /\ Dispatched.client = "destroyed"
                /\ Dispatched.status = NoStatus /\ Dispatched.body = <<>>
                /\ Dispatched.out = NoOut /\ Dispatched.target = "none"
                /\ UNCHANGED routes
       /\ \A r \in reqs :
            (r.kind = "upgrade" /\ r.out = NoOut) => r \in reqs'
       /\ \A q \in Requests, name \in DOMAIN routes :
            (q[1] = "upgrade" /\ q[2] \in HostsOf(name) /\ HandleUpgrade(q[2], q[3])) =>
                /\ Dispatched.out = [hostname |-> routes[name].targetHost,
                                     port |-> routes[name].targetPort]
                /\ Dispatched.target = "connecting" /\ Dispatched.client = "open"
                /\ Dispatched.sent = NoOut
       /\ \A r \in reqs :
            TargetConnect(r) =>
                /\ After(r).sent = [method |-> r.method, url |-> r.url,
                                    httpVersion |-> "1.1", host |-> r.out]
                /\ After(r).out = r.out
                /\ After(r).status = NoStatus /\ After(r).body = <<>>
      ]_vars

\* the request line of an upgrade was written to the backend at 10.0.0.5:3001
\* after another upgrade, for a name without a route, had its socket destroyed
C15_Witness ==
    \E r, d \in reqs :
        /\ r.kind = "upgrade" /\ r.sent # NoOut
        /\ r.sent.url = "/path?q=1" /\ r.sent.host.hostname = "10.0.0.5"
        /\ d.kind = "upgrade" /\ d.out = NoOut /\ d.client = "destroyed"

\* a request or upgrade that ended in UnknownRoute, or an HTTP request that ended
\* in UpstreamUnavailable
EndedInFailure(r) ==
    \/ r.out = NoOut /\ extractSubdomain(r.host) # NoSubdomain
    \/ /\ r.kind = "request" /\ r.out # NoOut
       /\ r.target = "closed" /\ r.body # <<>> /\ r.body[1] = "Proxy error: "

\* C16 as claimed: when every request dispatched so far has ended in UnknownRoute
\* or UpstreamUnavailable, no field of a route is other than addRoute and
\* updateRouteStatus left it: no route has a lastAccessed.
C16_Original ==
    (\A r \in reqs : EndedInFailure(r)) =>
        \A n \in DOMAIN routes : routes[n].lastAccessed = NoAccess

\* C16: the dispatch of a request or upgrade changes neither the server, the
\* port nor the events, changes no route when its Host names no registered
\* route, and otherwise only the lastAccessed of the route it names; the failure
\* of an outbound request or connection changes neither the server, the port,
\* the registry nor the events; neither step changes another request.
C16_FailureContained ==
    [][/\ \A q \in Requests :
            (HandleRequest(q[2], q[3]) \/ HandleUpgrade(q[2], q[3])) =>
                /\ UNCHANGED <<server, port, events, socks>>
                /\ reqs' = reqs \cup {Dispatched}
                /\ DOMAIN routes' = DOMAIN routes
                /\ \A n \in DOMAIN routes :
                        IF q[2] \in HostsOf(n)
                        THEN routes'[n] = [routes[n] EXCEPT
                                                !.lastAccessed = routes'[n].lastAccessed]
                        ELSE routes'[n] = routes[n]
       /\ \A r \in reqs, err \in UpstreamErrors :
            (ProxyError(r, err) \/ TargetError(r)) =>
                /\ UNCHANGED <<server, port, routes, events, socks>>
                /\ reqs \ {r} = reqs' \ {After(r)}
      ]_vars

\* one request ended in a 502 for a failed upstream, and another request, in
\* flight at the same time, got the backend's 200
C16_Witness ==
    \E r, d \in reqs :
        /\ EndedInFailure(r) /\ r.out # NoOut /\ r.status = 502
        /\ d.kind = "request" /\ d.status = 200 /\ d.client = "ended"
        /\ d.body = <<"he", "llo">>

\* C17: no step changes the name, targetHost, targetPort, taskId, url or
\* registeredAt of a route that stays registered; updateRouteStatus(name, s) of a
\* registered name returns true and changes only the status of that route, to s,
\* which getRoute then shows; of an absent name it returns false and changes
\* nothing.
C17_RouteIdentityAndStatus ==
    [][/\ \A n \in DOMAIN routes \cap DOMAIN routes' :
            Identity(routes'[n]) = Identity(routes[n])
       /\ \A name \in RouteNames, status \in PROXY_ROUTE_STATUSES :
            UpdateRouteStatus(name, status) =>
                IF name \in DOMAIN routes
                THEN /\ ret' = Returned(ncalls + 1, "updateRouteStatus", TRUE)
                     /\ DOMAIN routes' = DOMAIN routes
                     /\ getRoute(name)' = [routes[name] EXCEPT !.status = status]
                     /\ \A n \in DOMAIN routes \ {name} : getRoute(n)' = routes[n]
                     /\ UNCHANGED <<server, port, socks, calls, reqs>>
                ELSE /\ ret' = Returned(ncalls + 1, "updateRouteStatus", FALSE)
                     /\ UNCHANGED <<routes, events, server, port, socks, calls, reqs>>
      ]_vars

\* updateRouteStatus returned true for a route that requests had been forwarded
\* to, and the route shows the new status
C17_Witness ==
    /\ ret = Returned(ncalls, "updateRouteStatus", TRUE)
    /\ \E n \in DOMAIN routes :
        /\ routes[n].status = "error"
        /\ routes[n].lastAccessed # NoAccess
        /\ Last(events).type = "route:status"
        /\ Last(events).route = routes[n]

\* C18: the listener never sees a second route:added for a name unless a
\* route:removed for that name or a stopped came in between: of two overlapping
\* addRoute calls for one name only one registers a route.
C18_OneAddPerName ==
    \A i, j \in 1..Len(events) :
        (/\ i < j
         /\ events[i].type = "route:added" /\ events[j].type = "route:added"
         /\ events[i].route.name = events[j].route.name) =>
            \E k \in (i + 1)..(j - 1) :
                \/ events[k].type = "stopped"
                \/ /\ events[k].type = "route:removed"
                   /\ events[k].route.name = events[i].route.name

\* C19: at most one socket of the service is listening, this.server and
\* this.port are that socket's, and when the stop() issued last has completed
\* and no call is pending no socket of the service is listening.
C19_OneListeningSocket ==
    /\ Cardinality(socks) <= 1
    /\ \A s \in socks : s.id = server /\ s.port = port
    /\ (calls = {} /\ ret.op = "stop" /\ ret.id = ncalls) => socks = {}

\* C20: in the event stream started and stopped alternate, beginning with
\* started: one started for each start of the engine, one stopped for each stop.
IsStartedOrStopped(e) == e.type \in {"started", "stopped"}
C20_StartedStoppedAlternate ==
    LET seen == SelectSeq(events, IsStartedOrStopped) IN
    \A i \in 1..Len(seen) :
        seen[i].type = IF i % 2 = 1 THEN "started" ELSE "stopped"

\* C21: as long as no call has been issued after it, an addRoute that returned a
\* route has that route's name registered, and a start() that returned ok: true
\* has the engine Running with a socket listening on the port it returned; no
\* later removeRoute or stop() can have undone either, whatever calls issued
\* earlier are still pending.
C21_SuccessStaysTrue ==
    /\ (ret.op = "addRoute" /\ ~ret.threw /\ ret.id = ncalls) =>
            ret.value.name \in DOMAIN routes
    /\ (ret.op = "start" /\ ret.ok /\ ret.id = ncalls) =>
            (server # NoServer /\ HeldByService(ret.port))

\* C22: every route in the registry has the url http://<name>.localhost:<port>
\* with <port> the port the engine holds, which is a number.
C22_UrlNamesCurrentPort ==
    \A n \in DOMAIN routes :
        /\ port # NoPort
        /\ routes[n].url = Url(n, port)

\* C23: every name the slug grammar accepts is accepted by addRoute's test, and
\* the Host values <name>.localhost and <name>.localhost:<port> extract to that
\* name, so that a request with such a Host is forwarded exactly when the name is
\* registered; a request with any other Host value yields no subdomain and gets
\* the 200 of the control surface, with no outbound request.
C23_ValidationAndExtractionAgree ==
    [][/\ \A name \in Names :
            IsSlug(name) =>
                /\ SLUG_RE(name)
                /\ \A h \in HostsOf(name) : extractSubdomain(h) = name
       /\ \A host \in Hosts, line \in RequestLines :
            HandleRequest(host, line) =>
                IF \E name \in Names : IsSlug(name) /\ host \in HostsOf(name)
                THEN Dispatched.out # NoOut <=> extractSubdomain(host) \in DOMAIN routes
                ELSE /\ extractSubdomain(host) = NoSubdomain
                     /\ Dispatched = ControlSurface(NewReq("request", host, line))
                     /\ Dispatched.status = 200 /\ Dispatched.out = NoOut
                     /\ UNCHANGED routes
      ]_vars

\* C24: every task of the integration is mapped to a valid slug, no two tasks
\* are mapped to the same slug, and once every addRoute has returned each task's
\* slug is registered with a route that carries that task's id.
C24_TasksHaveOwnRoutes ==
    /\ \A t \in DOMAIN taskSlugMap : IsSlug(taskSlugMap[t]) /\ SLUG_RE(taskSlugMap[t])
    /\ \A t, u \in DOMAIN taskSlugMap : t # u => taskSlugMap[t] # taskSlugMap[u]
    /\ calls = {} =>
            \A t \in DOMAIN taskSlugMap :
                /\ taskSlugMap[t] \in DOMAIN routes
                /\ routes[taskSlugMap[t]].taskId = t

====
